---- MODULE Spec2Model ----
(***************************************************************************)
(* Event-processing / idempotency state machine of customize_invoice.      *)
(*                                                                         *)
(* The repository holds independent Flask programs, each with its own      *)
(* module-level ledger:                                                    *)
(*   etsy_listener.py  PROCESSED_EVENTS, PROCESSED_ORDERS, the preview     *)
(*                     webhook and the Etsy order poller;                  *)
(*   app.py            PROCESSED_EVENTS and its own preview webhook.       *)
(* The variable `program` says which of them the process is running.       *)
(*                                                                         *)
(* A ledger (collections.OrderedDict) is a sequence of entries in          *)
(* insertion order, one per key.  The "timestamp" stored in an entry is    *)
(* written and never read by the code, and is left out.                    *)
(* Time is counted in seconds.                                             *)
(***************************************************************************)
EXTENDS Integers, Sequences, FiniteSets, TLC

VARIABLES
    program,            \* which program of the repository runs
    PROCESSED_EVENTS,   \* the webhook ledger of the running program
    PROCESSED_ORDERS,   \* the order ledger (etsy_listener.py)
    now,                \* datetime.now(timezone.utc), in seconds
    sent,               \* history: the event ids a notification email was sent for
    resent,             \* history: the event ids an email was sent for more than once
    evicted,            \* history: the ledgers that have evicted an entry
    last,               \* observation of the last webhook delivery handled
    inserted,           \* history: the ids held by PROCESSED_EVENTS, in the
                        \* order in which they came to be held (SpecEntries)
    threads,            \* concurrent deliveries in flight (SpecConc)
    brands,             \* the brand records of the document store (SpecPending,
                        \* SpecStore)
    call,               \* one call of a function: its arguments, then its result
                        \* (SpecCalls)
    orders              \* history: for each order id, the order records created
                        \* in the document store (SpecOrders)

vars == <<program, PROCESSED_EVENTS, PROCESSED_ORDERS, now, sent, resent,
          evicted, last, inserted, threads, brands, call, orders>>

(***************************************************************************)
(* Bounds of the model.                                                    *)
(***************************************************************************)
\* Capacity of a ledger.  The programs set 100 (etsy_listener.py:51,
\* app.py:46); the model runs the same code with a small capacity so that
\* eviction happens within a few deliveries.
MAX_CACHE_SIZE == 2
\* Seconds the clock may advance while deliveries are in flight.
MaxNow == 1

(***************************************************************************)
(* Inputs.                                                                 *)
(***************************************************************************)
Programs == {"etsy_listener", "app"}

\* Python's None as the value of data.get('eventId').
None == "None"
EventIds == {"e1", "e2", "e3"}
\* The values of data.get('eventId') in runs with deliveries that carry no id.
NoIdKeys == {"e1", None}
EventKeys == EventIds \cup {None}
OrderIds == {"o1", "o2", "o3"}

\* Staleness threshold in minutes (default of is_stale_event, literal in
\* etsy_listener.py).
MAX_AGE_MINUTES == 5

\* data.get('createdAt'):
\*   "missing"      absent (None)
\*   "unparseable"  a value parser.parse raises on
\*   "time"         a string with a UTC offset: the instant `at`, in seconds
\*   "naive"        a string without a UTC offset, which parser.parse turns
\*                  into a naive datetime reading `at`
EventTime(kind, at) == [kind |-> kind, at |-> at]
EventTimesAt(clock) ==
    { EventTime("missing", 0), EventTime("unparseable", 0) }
    \cup { EventTime("time", clock - age) :
             age \in { MAX_AGE_MINUTES * 60, MAX_AGE_MINUTES * 60 + 1 } }

\* The fields list of the payload: with a logo upload, without one, or of a
\* shape the extraction loop raises on.
Payloads == {"valid", "nologo", "malformed"}

Deliveries(keys, clock) ==
    [event_id : keys, event_time : EventTimesAt(clock), payload : Payloads]

\* What the collaborators do during one run of the pipeline: whether
\* update_notion_database reached the store, whether generate_excel_template
\* returned a file, and what send_email did (it is called only with a file).
PreviewOutcomes ==
    { o \in [notion : {"ok", "fail"}, template : {"ok", "fail"},
             send : {"ok", "fail", "raise", "none"}] :
        (o.send = "none") <=> (o.template = "fail") }

\* No collaborator is called for a payload that is not valid.
NoOutcome == [notion |-> "fail", template |-> "fail", send |-> "none"]
OutcomesFor(payload) == IF payload = "valid" THEN PreviewOutcomes ELSE {NoOutcome}

(***************************************************************************)
(* The ledger.                                                             *)
(***************************************************************************)
Entry(id, processed) == [id |-> id, processed |-> processed]

\* `id in ledger`
Seen(ledger, id) == \E i \in 1..Len(ledger) : ledger[i].id = id

\* `id in ledger and ledger[id].get("processed", False)`
IsProcessed(ledger, id) ==
    \E i \in 1..Len(ledger) : ledger[i].id = id /\ ledger[i].processed

\* ledger[id] = {...}: an existing key keeps its place, a new key goes last.
SetItem(ledger, id, processed) ==
    IF Seen(ledger, id)
    THEN [i \in 1..Len(ledger) |->
            IF ledger[i].id = id THEN Entry(id, processed) ELSE ledger[i]]
    ELSE Append(ledger, Entry(id, processed))

\* The mutant of RecordEntry that inserts without evicting.
RecordEntryNoEvict(ledger, id, processed) == SetItem(ledger, id, processed)

\* if len(ledger) >= MAX_CACHE_SIZE: ledger.popitem(last=False)
\* ledger[id] = {"timestamp": time.time(), "processed": processed}
RecordEntry(ledger, id, processed) ==
    SetItem(IF Len(ledger) >= MAX_CACHE_SIZE THEN Tail(ledger) ELSE ledger,
            id, processed)

EntryState(ledger, id) ==
    IF ~Seen(ledger, id) THEN "absent"
    ELSE IF IsProcessed(ledger, id) THEN "processed" ELSE "unprocessed"

(***************************************************************************)
(* Staleness.                                                              *)
(***************************************************************************)
\* app.py is_stale_event: (stale?, time_diff) with time_diff in minutes;
\* parser.parse raises on None and on an unparseable string, and
\* datetime.now(timezone.utc) - event_datetime raises TypeError when
\* event_datetime is naive; the except branch answers "not stale".
\* time_diff > max_age_minutes is compared here in seconds.
is_stale_event(event_time, clock) ==
    IF event_time.kind = "time"
    THEN (clock - event_time.at) > MAX_AGE_MINUTES * 60
    ELSE FALSE

\* etsy_listener.py, inline in handle_preview_request: is_stale stays False
\* when createdAt is falsy, when parser.parse raises and when the
\* subtraction raises on a naive datetime.
PreviewIsStale(event_time, clock) ==
    IF event_time.kind = "missing" THEN FALSE
    ELSE IF event_time.kind = "unparseable" THEN FALSE
    ELSE IF event_time.kind = "naive" THEN FALSE
    ELSE (clock - event_time.at) > MAX_AGE_MINUTES * 60

(***************************************************************************)
(* The preview webhook of etsy_listener.py, one branch per operator.       *)
(* A run of the handler yields the ledger it leaves and what it did:       *)
(* the HTTP status, the last stage it reached, what send_email did         *)
(* ("none" when it was not called) and the number of document-store        *)
(* writes (pages.create / pages.update) it made.                           *)
(***************************************************************************)
Result(ledger, resp, stage, send, store_writes) ==
    [ledger |-> ledger, resp |-> resp, stage |-> stage, send |-> send,
     store_writes |-> store_writes]

\* The mutant of AlreadyProcessed that skips the duplicate check.
AlreadyProcessedNever(ledger, event_id) == FALSE

\* The mutant of AlreadyProcessed that short-circuits every id the ledger
\* holds, whatever its flag.
AlreadyProcessedSeen(ledger, event_id) ==
    \E i \in 1..Len(ledger) : ledger[i].id = event_id

\* if event_id in PROCESSED_EVENTS and PROCESSED_EVENTS[event_id].get("processed", False)
AlreadyProcessed(ledger, event_id) ==
    \E i \in 1..Len(ledger) : ledger[i].id = event_id /\ ledger[i].processed

\* The mutant of StaleSkip that acknowledges a stale delivery without recording it.
StaleSkipUnrecorded(ledger, event_id) == Result(ledger, 204, "stale", "none", 0)

\* if is_stale: record processed=False, return '', 204
StaleSkip(ledger, event_id) ==
    Result(RecordEntry(ledger, event_id, FALSE), 204, "stale", "none", 0)

\* if not logo_url: return jsonify(...), 400
LogoMissing(ledger) == Result(ledger, 400, "extract", "none", 0)

\* if not excel_path: return jsonify(...), 500
TemplateFailed(ledger, writes) == Result(ledger, 500, "template", "none", writes)

\* The mutant of SendFailed that ignores what send_email returned.
SendFailedIgnored(ledger, event_id, writes) ==
    Result(RecordEntry(ledger, event_id, TRUE), 204, "done", "fail", writes)

\* if not email_sent: return jsonify(...), 500
SendFailed(ledger, event_id, writes) == Result(ledger, 500, "send", "fail", writes)

\* The mutant of MarkProcessed that records the success as processed=False.
MarkProcessedAsFailed(ledger, event_id) == RecordEntry(ledger, event_id, FALSE)

\* Mark this event as successfully processed.
MarkProcessed(ledger, event_id) == RecordEntry(ledger, event_id, TRUE)

\* except Exception: `if event_id:` is false for None; record processed=False.
OnException(ledger, event_id) ==
    IF event_id # None THEN RecordEntry(ledger, event_id, FALSE) ELSE ledger

\* update_notion_database: one create or update of the brand page, and the
\* page id; None (no write counted) when the credentials are unset or the
\* call raises inside it.
NotionWrites(out) == IF out.notion = "ok" THEN 1 ELSE 0

\* handle_preview_request of etsy_listener.py, run on ledger at time clock
\* for delivery d with the collaborators behaving as out.
PreviewRun(ledger, d, clock, out) ==
    IF AlreadyProcessed(ledger, d.event_id)
    THEN Result(ledger, 204, "duplicate", "none", 0)
    ELSE IF PreviewIsStale(d.event_time, clock)
    THEN StaleSkip(ledger, d.event_id)
    ELSE IF d.payload = "malformed"
    THEN Result(OnException(ledger, d.event_id), 500, "extract", "none", 0)
    ELSE IF d.payload = "nologo"
    THEN LogoMissing(ledger)
    ELSE IF out.template = "fail"
    THEN TemplateFailed(ledger, NotionWrites(out))
    ELSE IF out.send = "raise"
    THEN Result(OnException(ledger, d.event_id), 500, "send", "raise", NotionWrites(out))
    ELSE IF out.send = "fail"
    THEN SendFailed(ledger, d.event_id, NotionWrites(out))
    \* the second write is notion.pages.update(page_id=notion_page_id, ...)
    ELSE Result(MarkProcessed(ledger, d.event_id), 204, "done", "ok",
                NotionWrites(out) + NotionWrites(out))

(***************************************************************************)
(* The preview webhook of app.py.  The name logo_bytes is bound nowhere    *)
(* in the function or the module (line 902 is a comment), so line 903      *)
(* raises NameError in every run that gets past the staleness check, and   *)
(* the lines after it (workbook, Brand ID, Notion, send_email) never run.  *)
(***************************************************************************)
AppPreviewRun(ledger, d, clock) ==
    IF AlreadyProcessed(ledger, d.event_id)
    THEN Result(ledger, 204, "duplicate", "none", 0)
    ELSE IF is_stale_event(d.event_time, clock)
    THEN Result(RecordEntry(ledger, d.event_id, FALSE), 204, "stale", "none", 0)
    ELSE IF d.payload = "malformed"
    THEN Result(OnException(ledger, d.event_id), 500, "extract", "none", 0)
    \* `if logo_bytes:` -> NameError -> except Exception
    ELSE Result(OnException(ledger, d.event_id), 500, "extract", "none", 0)

(***************************************************************************)
(* The order poller of etsy_listener.py.                                   *)
(***************************************************************************)
\* A receipt: its id and its message_from_buyer, which carries the tag
\* "BrandID: <token>", carries no tag, or is null (re.search then raises
\* TypeError).
Notes == {"tagged", "untagged", "null"}

\* What the collaborators do while one order is processed; a collaborator
\* that is not reached is "none".
\*   lookup    the query of the brand records by buyer email:
\*             "hit" (a record with a BrandID), "miss", "error"
\*   brand     get_brand_data_from_notion: "found", "missing"
\*   create    create_order_in_notion: "ok", "fail" (returns None)
\*   template  generate_excel_template: "ok", "fail"
\*   send      send_email: "ok", "fail" (False), "raise"
OrderOutcome(lookup, brand, create, template, send) ==
    [lookup |-> lookup, brand |-> brand, create |-> create, template |-> template,
     send |-> send]

ResolvedOutcomes(lookup) ==
    { OrderOutcome(lookup, "missing", "none", "none", "none"),
      OrderOutcome(lookup, "found", "fail", "none", "none"),
      OrderOutcome(lookup, "found", "ok", "fail", "none") }
    \cup { OrderOutcome(lookup, "found", "ok", "ok", snd) : snd \in {"ok", "fail", "raise"} }

OrderOutcomesFor(note) ==
    IF note = "null" THEN { OrderOutcome("none", "none", "none", "none", "none") }
    ELSE IF note = "tagged" THEN ResolvedOutcomes("none")
    ELSE ResolvedOutcomes("hit")
         \cup { OrderOutcome(l, "none", "none", "none", "none") : l \in {"miss", "error"} }

\* Where brand_id came from ("note", "email", "none" when there is none) and
\* whether the brand records were queried by the buyer's email.
BrandIdFound(source, looked_up) == [source |-> source, looked_up |-> looked_up]

\* The mutant of resolve_brand_id that queries the brand records by email
\* before it reads the note.
resolve_brand_id_by_email_first(note, out) ==
    IF out.lookup = "hit" THEN BrandIdFound("email", TRUE)
    ELSE BrandIdFound(IF note = "tagged" THEN "note" ELSE "none", TRUE)

\* brand_id = brand_id_match.group(1) if brand_id_match else None
\* if not brand_id: query the brand records by Email equals buyer_email and
\* take the BrandID of the first result; an error of the query is logged.
resolve_brand_id(note, out) ==
    IF note = "tagged" THEN BrandIdFound("note", FALSE)
    ELSE BrandIdFound(IF out.lookup = "hit" THEN "email" ELSE "none", TRUE)

\* brand_id after the regex and the lookup by email: TRUE when one was found.
HasBrandId(note, out) == resolve_brand_id(note, out).source # "none"

\* What one run of process_etsy_order did: the ledger it leaves, whether the
\* order was skipped, what send_email did, the temporary files still on disk
\* at return, and whether an exception left the function.
OrderResult(ledger, skipped, send, temp_left, escaped) ==
    [ledger |-> ledger, skipped |-> skipped, send |-> send, temp_left |-> temp_left,
     escaped |-> escaped, found |-> BrandIdFound("none", FALSE), created |-> FALSE]

\* The result of a run that got as far as resolving the Brand ID.
Resolved(result, found) == [result EXCEPT !.found = found]

\* The result of a run in which create_order_in_notion created the order
\* record (notion.pages.create returned the id of a new page).
Created(result) == [result EXCEPT !.created = TRUE]

\* The temporary files generate_excel_template hands back in temp_files.
TempFiles == {"logo.png", "template.xlsx"}

OrderSkippedNever(ledger, order_id) == FALSE

\* if str(order_id) in PROCESSED_ORDERS: return
OrderSkipped(ledger, order_id) == Seen(ledger, order_id)

\* for file_path in temp_files: os.unlink(file_path), the last statements of
\* the try block: reached after send_email returned, not after it raised.
OrderCleanup(send) == IF send = "raise" THEN TempFiles ELSE {}

\* except Exception as e: the order is recorded processed=False and the
\* function returns normally.
OrderException(ledger, order_id) ==
    OrderResult(RecordEntry(ledger, order_id, FALSE), FALSE, "none", {}, FALSE)

process_etsy_order(ledger, order_id, note, out) ==
    IF OrderSkipped(ledger, order_id) THEN OrderResult(ledger, TRUE, "none", {}, FALSE)
    \* re.search on a null note raises: except Exception
    ELSE IF note = "null" THEN OrderException(ledger, order_id)
    ELSE Resolved(
        \* if not brand_id: record processed=False; return
        IF ~HasBrandId(note, out)
        THEN OrderResult(RecordEntry(ledger, order_id, FALSE), FALSE, "none", {}, FALSE)
        ELSE IF out.brand = "missing"
        THEN OrderResult(RecordEntry(ledger, order_id, FALSE), FALSE, "none", {}, FALSE)
        \* if not order_page_id: return
        ELSE IF out.create = "fail" THEN OrderResult(ledger, FALSE, "none", {}, FALSE)
        \* order_page_id = create_order_in_notion(...) created the record
        ELSE Created(
            \* if not excel_path: ...; return
            IF out.template = "fail" THEN OrderResult(ledger, FALSE, "none", {}, FALSE)
            \* send_email raised: except Exception, the cleanup loop is not reached
            ELSE IF out.send = "raise"
            THEN [OrderException(ledger, order_id) EXCEPT !.send = "raise",
                                                          !.temp_left = OrderCleanup("raise")]
            ELSE IF out.send = "ok"
            THEN OrderResult(RecordEntry(ledger, order_id, TRUE), FALSE, "ok",
                             OrderCleanup("ok"), FALSE)
            \* email_sent is False: the order status is set to Failed, nothing is
            \* recorded
            ELSE OrderResult(ledger, FALSE, "fail", OrderCleanup("fail"), FALSE)),
        resolve_brand_id(note, out))

\* process_etsy_order: the order ledger it leaves.
OrderRun(ledger, order_id, note, out) ==
    process_etsy_order(ledger, order_id, note, out).ledger

Receipts ==
    UNION { { [order_id |-> o, note |-> n, out |-> x] :
                o \in OrderIds, x \in OrderOutcomesFor(n) } : n \in Notes }

TaggedReceipts == { r \in Receipts : r.note = "tagged" }

\* What get_etsy_receipts can return to one pass: no receipt (also the case
\* when the call fails, which check_etsy_orders logs), one receipt, or the
\* receipts of two orders (followed for tagged notes).
ReceiptLists ==
    { <<>> }
    \cup { <<r>> : r \in Receipts }
    \cup { rs \in { <<r1, r2>> : r1 \in TaggedReceipts, r2 \in TaggedReceipts } :
             rs[1].order_id # rs[2].order_id }

\* The receipt lists followed with the orders of each pass observed: no
\* receipt, one receipt, or two tagged receipts of different orders, the
\* second of which has a brand record that is missing or is processed to the
\* end.
SecondReceipts ==
    { r \in TaggedReceipts : r.out.brand = "missing" \/ r.out.send = "ok" }

PolledLists ==
    { <<>> }
    \cup { <<r>> : r \in Receipts }
    \cup { rs \in { <<r1, r2>> : r1 \in TaggedReceipts, r2 \in SecondReceipts } :
             <<rs[1].order_id, rs[2].order_id>> \in
                 { <<"o1", "o2">>, <<"o2", "o3">>, <<"o3", "o1">> } }

\* One receipt as the pass saw it.
OrderSeen(before, receipt, r) ==
    [order_id |-> receipt.order_id,
     entry_before |-> EntryState(before, receipt.order_id),
     note |-> receipt.note, brand_source |-> r.found.source,
     looked_up |-> r.found.looked_up,
     skipped |-> r.skipped, send |-> r.send, temp_left |-> r.temp_left,
     escaped |-> r.escaped,
     entry_after |-> EntryState(r.ledger, receipt.order_id)]

\* for receipt in receipts: process_etsy_order(receipt), inside the try block
\* of check_etsy_orders: an exception that leaves process_etsy_order ends
\* the loop.  The receipts the pass went through, in order.
RECURSIVE PassTrace(_, _)
PassTrace(ledger, receipts) ==
    IF receipts = <<>> THEN <<>>
    ELSE LET r == process_etsy_order(ledger, Head(receipts).order_id,
                                     Head(receipts).note, Head(receipts).out)
         IN <<OrderSeen(ledger, Head(receipts), r)>>
            \o (IF r.escaped THEN <<>> ELSE PassTrace(r.ledger, Tail(receipts)))

\* The order ledger after the pass.
RECURSIVE PassRun(_, _)
PassRun(ledger, receipts) ==
    IF receipts = <<>> THEN ledger
    ELSE LET r == process_etsy_order(ledger, Head(receipts).order_id,
                                     Head(receipts).note, Head(receipts).out)
         IN IF r.escaped THEN r.ledger ELSE PassRun(r.ledger, Tail(receipts))

(***************************************************************************)
(* Observation of a handled delivery, for the properties below.            *)
(***************************************************************************)
\* The delivery is older than MAX_AGE_MINUTES at time clock.
TooOld(event_time, clock) ==
    event_time.kind = "time" /\ clock - event_time.at > MAX_AGE_MINUTES * 60

NoDelivery ==
    [kind |-> "none", event_id |-> None, payload |-> "valid", was_processed |-> FALSE,
     too_old |-> FALSE, resp |-> 0, stage |-> "none",
     send |-> "none", store_writes |-> 0, ledger_changed |-> FALSE,
     entry_after |-> "absent"]

\* The ids a ledger holds.
Ids(ledger) == { ledger[i].id : i \in DOMAIN ledger }

\* The ids held, in the order in which they came to be held, after a
\* delivery turned the ledger `before` into `after`: an id that is held
\* before and after the delivery keeps its rank, an id held only after it
\* goes last.
InsertedAfter(before, after) ==
    SelectSeq(inserted, LAMBDA k : k \in Ids(after))
    \o SelectSeq([i \in DOMAIN after |-> after[i].id], LAMBDA k : k \notin Ids(before))

Observe(d, clock, before, r) ==
    [kind |-> "preview", event_id |-> d.event_id, payload |-> d.payload,
     was_processed |-> IsProcessed(before, d.event_id),
     too_old |-> TooOld(d.event_time, clock),
     resp |-> r.resp, stage |-> r.stage, send |-> r.send,
     store_writes |-> r.store_writes,
     ledger_changed |-> (r.ledger # before),
     entry_after |-> EntryState(r.ledger, d.event_id)]

\* The histories after a run whose send_email call did `send` for event_id.
SentAfter(event_id, send) == IF send = "ok" THEN sent \cup {event_id} ELSE sent
ResentAfter(event_id, send) ==
    IF send = "ok" /\ event_id \in sent THEN resent \cup {event_id} ELSE resent

\* The ledgers known to have evicted an entry, after `before` became `after`.
EvictedAfter(name, before, after) ==
    IF \E i \in 1..Len(before) : ~Seen(after, before[i].id)
    THEN evicted \cup {name} ELSE evicted

Delivered(d, r) ==
    /\ PROCESSED_EVENTS' = r.ledger
    /\ sent' = SentAfter(d.event_id, r.send)
    /\ resent' = ResentAfter(d.event_id, r.send)
    /\ evicted' = EvictedAfter("PROCESSED_EVENTS", PROCESSED_EVENTS, r.ledger)
    /\ last' = Observe(d, now, PROCESSED_EVENTS, r)
    /\ UNCHANGED <<orders, inserted, call, brands, program, PROCESSED_ORDERS, now, threads>>

\* POST /preview_webhook of etsy_listener.py, handled from start to end,
\* for a delivery whose event id is one of keys.
handle_preview_request(keys) ==
    /\ program = "etsy_listener"
    /\ \E d \in Deliveries(keys, now) : \E out \in OutcomesFor(d.payload) :
          Delivered(d, PreviewRun(PROCESSED_EVENTS, d, now, out))

\* POST /preview_webhook of app.py, handled from start to end.
app_handle_preview_request(keys) ==
    /\ program = "app"
    /\ \E d \in Deliveries(keys, now) :
          Delivered(d, AppPreviewRun(PROCESSED_EVENTS, d, now))

Init ==
    /\ program \in Programs
    /\ PROCESSED_EVENTS = <<>>
    /\ PROCESSED_ORDERS = <<>>
    /\ now = 0
    /\ sent = {}
    /\ resent = {}
    /\ evicted = {}
    /\ last = NoDelivery
    /\ threads = <<>>
    /\ brands = <<>>
    /\ call = <<>>
    /\ inserted = <<>>
    /\ orders = <<>>

Next ==
    \/ handle_preview_request(EventIds)
    \/ app_handle_preview_request(EventIds)

NextNoId ==
    \/ handle_preview_request(NoIdKeys)
    \/ app_handle_preview_request(NoIdKeys)

(***************************************************************************)
(* The same handlers followed on the two ledgers alone: deliveries and     *)
(* poll passes in any order, without the observation `last` and the send   *)
(* histories.                                                              *)
(***************************************************************************)
LedgerStep(after) ==
    /\ PROCESSED_EVENTS' = after
    /\ evicted' = EvictedAfter("PROCESSED_EVENTS", PROCESSED_EVENTS, after)
    /\ UNCHANGED <<orders, inserted, call, brands, program, PROCESSED_ORDERS, now, sent, resent, last, threads>>

preview_webhook ==
    /\ program = "etsy_listener"
    /\ \E d \in Deliveries(EventIds, now) : \E out \in OutcomesFor(d.payload) :
          LedgerStep(PreviewRun(PROCESSED_EVENTS, d, now, out).ledger)

app_preview_webhook ==
    /\ program = "app"
    /\ \E d \in Deliveries(EventIds, now) :
          LedgerStep(AppPreviewRun(PROCESSED_EVENTS, d, now).ledger)

\* One pass of the scheduled job check_etsy_orders.
check_etsy_orders ==
    /\ program = "etsy_listener"
    /\ \E receipts \in ReceiptLists :
          /\ PROCESSED_ORDERS' = PassRun(PROCESSED_ORDERS, receipts)
          /\ evicted' = EvictedAfter("PROCESSED_ORDERS", PROCESSED_ORDERS,
                                     PassRun(PROCESSED_ORDERS, receipts))
    /\ UNCHANGED <<orders, inserted, call, brands, program, PROCESSED_EVENTS, now, sent, resent, last, threads>>

NextLedgers ==
    \/ preview_webhook
    \/ app_preview_webhook
    \/ check_etsy_orders

SpecLedgers == Init /\ [][NextLedgers]_vars

(***************************************************************************)
(* The same handlers followed entry by entry: what each delivery found in  *)
(* PROCESSED_EVENTS under its event id, which entries it removed, and the  *)
(* order in which the ids came to be held.                                 *)
(***************************************************************************)
\* One delivery as the ledger saw it.
ObserveEntry(d, clock, before, r) ==
    [kind |-> "entry", event_id |-> d.event_id, payload |-> d.payload,
     too_old |-> TooOld(d.event_time, clock),
     resp |-> r.resp, stage |-> r.stage, send |-> r.send,
     entry_before |-> EntryState(before, d.event_id),
     entry_after |-> EntryState(r.ledger, d.event_id),
     full_before |-> (Len(before) >= MAX_CACHE_SIZE),
     first_inserted |-> (IF inserted = <<>> THEN None ELSE Head(inserted)),
     dropped |-> (Ids(before) \ Ids(r.ledger))]

EntryStep(d, r) ==
    /\ PROCESSED_EVENTS' = r.ledger
    /\ inserted' = InsertedAfter(PROCESSED_EVENTS, r.ledger)
    /\ last' = ObserveEntry(d, now, PROCESSED_EVENTS, r)
    /\ UNCHANGED <<orders, call, brands, program, PROCESSED_ORDERS, now, sent, resent, evicted,
                   threads>>

\* POST /preview_webhook of etsy_listener.py.
preview_entry ==
    /\ program = "etsy_listener"
    /\ \E d \in Deliveries(EventIds, now) : \E out \in OutcomesFor(d.payload) :
          EntryStep(d, PreviewRun(PROCESSED_EVENTS, d, now, out))

\* POST /preview_webhook of app.py.
app_preview_entry ==
    /\ program = "app"
    /\ \E d \in Deliveries(EventIds, now) :
          EntryStep(d, AppPreviewRun(PROCESSED_EVENTS, d, now))

NextEntries ==
    \/ preview_entry
    \/ app_preview_entry

SpecEntries == Init /\ [][NextEntries]_vars

(***************************************************************************)
(* The scheduled job check_orders of etsy_listener.py, pass after pass,    *)
(* with the orders each pass went through kept in `last`.                  *)
(***************************************************************************)
\* The order ids whose licensed-template email a pass sent.
SentIn(trace) == { trace[i].order_id : i \in { j \in DOMAIN trace : trace[j].send = "ok" } }

\* One run of check_etsy_orders, from the query to the end of the loop.
check_orders ==
    /\ program = "etsy_listener"
    /\ \E receipts \in PolledLists :
          LET trace == PassTrace(PROCESSED_ORDERS, receipts)
              after == PassRun(PROCESSED_ORDERS, receipts)
          IN /\ PROCESSED_ORDERS' = after
             /\ sent' = sent \cup SentIn(trace)
             /\ resent' = resent \cup (sent \cap SentIn(trace))
             /\ evicted' = EvictedAfter("PROCESSED_ORDERS", PROCESSED_ORDERS, after)
             /\ last' = [kind |-> "pass", returned |-> Len(receipts), orders |-> trace]
    /\ UNCHANGED <<orders, inserted, call, brands, program, PROCESSED_EVENTS, now, threads>>

InitPoll ==
    /\ program = "etsy_listener"
    /\ PROCESSED_EVENTS = <<>>
    /\ PROCESSED_ORDERS = <<>>
    /\ now = 0
    /\ sent = {}
    /\ resent = {}
    /\ evicted = {}
    /\ last = NoDelivery
    /\ threads = <<>>
    /\ brands = <<>>
    /\ call = <<>>
    /\ inserted = <<>>
    /\ orders = <<>>

NextPoll == check_orders

SpecPoll == InitPoll /\ [][NextPoll]_vars

(***************************************************************************)
(* The order records of the document store: passes of check_etsy_orders    *)
(* that each return one receipt, with the order records created for each   *)
(* order id counted in `orders`.                                           *)
(***************************************************************************)
\* The order records followed for one order id.
MaxOrderRecords == 2

\* One run of check_etsy_orders whose query returns one receipt.
check_one_order ==
    /\ program = "etsy_listener"
    /\ \E receipt \in Receipts :
          LET r == process_etsy_order(PROCESSED_ORDERS, receipt.order_id,
                                      receipt.note, receipt.out)
              records == orders[receipt.order_id] + (IF r.created THEN 1 ELSE 0)
          IN /\ records <= MaxOrderRecords
             /\ PROCESSED_ORDERS' = r.ledger
             /\ orders' = [orders EXCEPT ![receipt.order_id] = records]
             /\ last' = [kind |-> "order", order_id |-> receipt.order_id,
                         entry_before |-> EntryState(PROCESSED_ORDERS, receipt.order_id),
                         created |-> r.created, send |-> r.send,
                         template |-> receipt.out.template]
    /\ UNCHANGED <<inserted, call, brands, program, PROCESSED_EVENTS, now, sent,
                   resent, evicted, threads>>

InitOrders ==
    /\ program = "etsy_listener"
    /\ PROCESSED_EVENTS = <<>>
    /\ PROCESSED_ORDERS = <<>>
    /\ now = 0
    /\ sent = {}
    /\ resent = {}
    /\ evicted = {}
    /\ last = NoDelivery
    /\ threads = <<>>
    /\ brands = <<>>
    /\ call = <<>>
    /\ inserted = <<>>
    /\ orders = [o \in OrderIds |-> 0]

NextOrders == check_one_order

SpecOrders == InitOrders /\ [][NextOrders]_vars

(***************************************************************************)
(* The scheduled job process_pending_records of brand_id_processor.py and  *)
(* of app.py: one pass over the brand records the query selects.           *)
(***************************************************************************)
Processors == {"brand_id_processor", "app"}

\* The pages of the brand database, in the order a query returns them.
PageOrder == <<"p1", "p2", "p3">>
Pages == { PageOrder[i] : i \in DOMAIN PageOrder }

\* A brand record: whether it has an email address, its BrandID property
\* ("" when empty) and its sent checkbox.
BrandRecord(email, brand_id, email_sent) ==
    [email |-> email, brand_id |-> brand_id, email_sent |-> email_sent]

\* The records the database can hold before a pass.
StoredRecords ==
    { BrandRecord(e, b, x) : e \in BOOLEAN, b \in {"", "BRAND-OLD"}, x \in BOOLEAN }

\* The filter of the query: BrandID is_empty (brand_id_processor.py), or
\* BrandID is_empty or (BrandID is_not_empty and Email Sent is false) (app.py).
Selected(prog, rec) ==
    IF prog = "brand_id_processor" THEN rec.brand_id = ""
    ELSE rec.brand_id = "" \/ (rec.brand_id # "" /\ ~rec.email_sent)

\* results of notion.databases.query(...): the selected pages, in order.
PendingQuery(prog, store) ==
    SelectSeq(PageOrder, LAMBDA pg : Selected(prog, store[pg]))

\* What the collaborators do for one record: process_template ("ok",
\* "fail"), send_email ("ok", "fail" for False, "raise", "none" when not
\* reached) and the page update ("ok", "fail").
RecordOutcomes ==
    { [template |-> "fail", send |-> "none", update |-> "ok"] }
    \cup { [template |-> "ok", send |-> snd, update |-> "ok"] :
               snd \in {"ok", "fail", "raise"} }
    \cup { [template |-> "ok", send |-> "ok", update |-> "fail"] }

\* What the loop body did for one record: the record it leaves, how the
\* body ended, what send_email did and whether an exception left the body.
RecordResult(rec, stage, send, escaped) ==
    [rec |-> rec, stage |-> stage, send |-> send, escaped |-> escaped]

\* The loop body of process_pending_records in brand_id_processor.py, which
\* has no exception handler of its own.
bip_process_record(rec, out) ==
    \* if not email: continue
    IF ~rec.email THEN RecordResult(rec, "no_email", "none", FALSE)
    \* if not template_path: continue
    ELSE IF out.template = "fail" THEN RecordResult(rec, "template", "none", FALSE)
    \* send_email raised: the exception leaves the loop
    ELSE IF out.send = "raise" THEN RecordResult(rec, "send", "raise", TRUE)
    \* update_notion_with_brand_id(page_id, brand_id, email_success)
    ELSE IF out.update = "fail" THEN RecordResult(rec, "done", out.send, FALSE)
    ELSE RecordResult(
             BrandRecord(rec.email, "BRAND-NEW", rec.email_sent \/ out.send = "ok"),
             "done", out.send, FALSE)

\* The loop body of process_pending_records in app.py, inside its
\* try / except Exception: continue.
app_process_record(rec, out) ==
    \* if not business_name or not email: continue
    IF ~rec.email THEN RecordResult(rec, "no_email", "none", FALSE)
    \* generate_brand_id(business_name) lacks the email argument: TypeError
    ELSE IF rec.brand_id = "" THEN RecordResult(rec, "brand_id", "none", FALSE)
    ELSE IF out.template = "fail" THEN RecordResult(rec, "template", "none", FALSE)
    ELSE IF out.send = "raise" THEN RecordResult(rec, "send", "raise", FALSE)
    ELSE IF out.send = "fail" THEN RecordResult(rec, "done", "fail", FALSE)
    \* notion.pages.update raised
    ELSE IF out.update = "fail" THEN RecordResult(rec, "update", "ok", FALSE)
    ELSE RecordResult(BrandRecord(rec.email, rec.brand_id, TRUE), "done", "ok", FALSE)

process_record(prog, rec, out) ==
    IF prog = "brand_id_processor" THEN bip_process_record(rec, out)
    ELSE app_process_record(rec, out)

\* for page in results: ...  The store the pass leaves and the records the
\* loop went through; an exception that leaves the loop body ends the loop
\* (except Exception at the end of process_pending_records).
RECURSIVE PendingPass(_, _, _, _)
PendingPass(prog, store, pages, outs) ==
    IF pages = <<>> THEN [store |-> store, handled |-> <<>>]
    ELSE LET pg == Head(pages)
             r == process_record(prog, store[pg], outs[pg])
             seen == [page |-> pg, stage |-> r.stage, send |-> r.send,
                      brand_before |-> store[pg].brand_id,
                      brand_after |-> r.rec.brand_id]
             rest == IF r.escaped
                     THEN [store |-> [store EXCEPT ![pg] = r.rec], handled |-> <<>>]
                     ELSE PendingPass(prog, [store EXCEPT ![pg] = r.rec], Tail(pages), outs)
         IN [store |-> rest.store, handled |-> <<seen>> \o rest.handled]

\* One run of process_pending_records.
process_pending_records ==
    /\ program \in Processors
    /\ \E outs \in [Pages -> RecordOutcomes] :
          LET pages == PendingQuery(program, brands)
              pass == PendingPass(program, brands, pages, outs)
          IN /\ brands' = pass.store
             /\ last' = [kind |-> "pending", returned |-> pages,
                         handled |-> pass.handled]
    /\ UNCHANGED <<orders, inserted, call, program, PROCESSED_EVENTS, PROCESSED_ORDERS, now, sent,
                   resent, evicted, threads>>

InitPending ==
    /\ program \in Processors
    /\ PROCESSED_EVENTS = <<>>
    /\ PROCESSED_ORDERS = <<>>
    /\ now = 0
    /\ sent = {}
    /\ resent = {}
    /\ evicted = {}
    /\ last = NoDelivery
    /\ threads = <<>>
    /\ brands \in [Pages -> StoredRecords]
    /\ call = <<>>
    /\ inserted = <<>>
    /\ orders = <<>>

NextPending == process_pending_records

SpecPending == InitPending /\ [][NextPending]_vars

(***************************************************************************)
(* send_email: the retry loop around the SMTP session (the same loop in    *)
(* the three programs).                                                    *)
(***************************************************************************)
max_retries == 3
first_retry_delay == 2

\* What the SMTP session of each attempt would do, were the attempt made:
\* one result more than max_retries.
SmtpScripts == [1..(max_retries + 1) -> {"ok", "fail"}]

\* How send_email ended: it returned True or False or raised, after so many
\* SMTP attempts and these sleeps.
SendReturn(outcome, attempts, waits) ==
    [outcome |-> outcome, attempts |-> attempts, waits |-> waits]

RECURSIVE smtp_attempt(_, _, _, _)

on_smtp_error_reraise(attempt, retry_delay, waits, script) ==
    IF attempt < max_retries - 1
    THEN smtp_attempt(attempt + 1, retry_delay * 2, Append(waits, retry_delay), script)
    ELSE SendReturn("raised", attempt + 1, waits)

\* The mutant of on_smtp_error that sleeps the same delay before every retry.
on_smtp_error_fixed_delay(attempt, retry_delay, waits, script) ==
    IF attempt < max_retries - 1
    THEN smtp_attempt(attempt + 1, retry_delay, Append(waits, retry_delay), script)
    ELSE SendReturn("False", attempt + 1, waits)

\* except Exception as e: sleep and double the delay, or return False after
\* the last attempt.
on_smtp_error(attempt, retry_delay, waits, script) ==
    IF attempt < max_retries - 1
    THEN smtp_attempt(attempt + 1, retry_delay * 2, Append(waits, retry_delay), script)
    ELSE SendReturn("False", attempt + 1, waits)

\* for attempt in range(max_retries): try: ... return True
smtp_attempt(attempt, retry_delay, waits, script) ==
    IF attempt >= max_retries THEN SendReturn("False", attempt, waits)
    ELSE IF script[attempt + 1] = "ok" THEN SendReturn("True", attempt + 1, waits)
    ELSE on_smtp_error(attempt, retry_delay, waits, script)

\* send_email of program prog.  configured: SMTP_USER and SMTP_PASS are set
\* (tested by etsy_listener.py only); prepared: "ok", or "raise" when
\* building the message or reading an attachment raises, which happens
\* before the retry loop.
send_email(prog, configured, prepared, script) ==
    IF prog = "etsy_listener" /\ ~configured THEN SendReturn("False", 0, <<>>)
    ELSE IF prepared = "raise" THEN SendReturn("raised", 0, <<>>)
    ELSE smtp_attempt(0, first_retry_delay, <<>>, script)

(***************************************************************************)
(* generate_brand_id of app.py and of brand_id_processor.py.  A string is  *)
(* the sequence of its characters.                                         *)
(***************************************************************************)
Lowers == <<"a", "b", "c", "d", "e", "f", "g", "h", "i", "j", "k", "l", "m",
            "n", "o", "p", "q", "r", "s", "t", "u", "v", "w", "x", "y", "z">>
Uppers == <<"A", "B", "C", "D", "E", "F", "G", "H", "I", "J", "K", "L", "M",
            "N", "O", "P", "Q", "R", "S", "T", "U", "V", "W", "X", "Y", "Z">>
Digits == <<"0", "1", "2", "3", "4", "5", "6", "7", "8", "9">>

Chars(seq) == { seq[i] : i \in DOMAIN seq }
IndexIn(seq, c) == CHOOSE i \in DOMAIN seq : seq[i] = c

\* str.isalpha, str.upper, str.lower and ord on one character.
isalpha(c) == c \in Chars(Lowers) \cup Chars(Uppers)
upper(c) == IF c \in Chars(Lowers) THEN Uppers[IndexIn(Lowers, c)] ELSE c
lower(c) == IF c \in Chars(Uppers) THEN Lowers[IndexIn(Uppers, c)] ELSE c
ord(c) ==
    IF c \in Chars(Lowers) THEN 96 + IndexIn(Lowers, c)
    ELSE IF c \in Chars(Uppers) THEN 64 + IndexIn(Uppers, c)
    ELSE IF c \in Chars(Digits) THEN 47 + IndexIn(Digits, c)
    ELSE IF c = "@" THEN 64
    ELSE IF c = "." THEN 46
    ELSE IF c = "-" THEN 45
    ELSE 32

Upper(str) == [i \in DOMAIN str |-> upper(str[i])]
Prefix(str, n) == SubSeq(str, 1, IF Len(str) < n THEN Len(str) ELSE n)

\* str.split(): the maximal runs of characters other than whitespace.
RECURSIVE SplitFrom(_, _, _)
SplitFrom(str, word, words) ==
    IF str = <<>> THEN (IF word = <<>> THEN words ELSE Append(words, word))
    ELSE IF Head(str) = " "
    THEN SplitFrom(Tail(str), <<>>, IF word = <<>> THEN words ELSE Append(words, word))
    ELSE SplitFrom(Tail(str), Append(word, Head(str)), words)

\* The word "Corp", a business suffix.
Corp == <<"C", "o", "r", "p">>

\* The mutant of split that leaves out the business suffix Corp, unless the
\* name has no other word.
split_ignoring(str) ==
    LET kept == SelectSeq(SplitFrom(str, <<>>, <<>>), LAMBDA w : w # Corp)
    IN IF kept = <<>> THEN SplitFrom(str, <<>>, <<>>) ELSE kept

split(str) == SplitFrom(str, <<>>, <<>>)

vowels == {"a", "e", "i", "o", "u"}
padding_chars == <<"X", "Y", "Z">>

\* char.isalpha() and char.lower() not in vowels
IsConsonant(c) == isalpha(c) /\ lower(c) \notin vowels

\* The first of the positions, 0 when there is none: where a 'for ... break'
\* search stops.
FirstOf(positions) ==
    IF positions = {} THEN 0
    ELSE CHOOSE i \in positions : \A j \in positions : i <= j

\* name_part and used_letters while the name code is built.
Code(name_part, used_letters) == [name_part |-> name_part, used_letters |-> used_letters]

\* name_part += c; used_letters.add(c)
Add(code, c) == Code(Append(code.name_part, c), code.used_letters \cup {c})

\* for padding_char in ['X', 'Y', 'Z']: add the first one not yet used
AddPadding(code) ==
    LET k == FirstOf({ i \in DOMAIN padding_chars :
                         padding_chars[i] \notin code.used_letters })
    IN IF k = 0 THEN code ELSE Add(code, padding_chars[k])

\* The body of 'for word in words' in app.py.
AppWord(code, word) ==
    IF Len(code.name_part) >= 4 THEN code
    ELSE LET initial == upper(word[1])
             c1 == IF initial \notin code.used_letters THEN Add(code, initial) ELSE code
         IN IF Len(c1.name_part) >= 4 THEN c1
            ELSE LET k == FirstOf({ i \in DOMAIN word :
                                      /\ IsConsonant(word[i])
                                      /\ upper(word[i]) \notin c1.used_letters })
                 IN IF k # 0 THEN Add(c1, upper(word[k]))
                    ELSE IF Len(c1.name_part) < 4 THEN AddPadding(c1)
                    ELSE c1

\* The body of 'for i, word in enumerate(words)' in brand_id_processor.py.
BipWord(code, word) ==
    IF Len(code.name_part) >= 4 THEN code
    ELSE LET initial == upper(word[1])
             c1 == IF initial \notin code.used_letters THEN Add(code, initial) ELSE code
             k == FirstOf({ i \in DOMAIN word : IsConsonant(word[i]) })
         IN IF k # 0 /\ upper(word[k]) \notin c1.used_letters
            THEN Add(c1, upper(word[k]))
            ELSE IF Len(c1.name_part) < 4 THEN AddPadding(c1)
            ELSE c1

RECURSIVE Words(_, _, _)
Words(prog, code, words) ==
    IF words = <<>> THEN code
    ELSE Words(prog,
               IF prog = "app" THEN AppWord(code, Head(words))
               ELSE BipWord(code, Head(words)),
               Tail(words))

\* How the construction of the name code ends: with name_part, or never.
NameCode(terminates, name_part) == [terminates |-> terminates, name_part |-> name_part]

\* while len(name_part) < 4: take padding_chars[i % 3] if it is not used;
\* i += 1.  Once X, Y and Z are all used no iteration changes name_part, and
\* the loop does not end.
RECURSIVE PadUnused(_, _)
PadUnused(code, i) ==
    IF Len(code.name_part) >= 4 THEN NameCode(TRUE, code.name_part)
    ELSE IF Chars(padding_chars) \subseteq code.used_letters
    THEN NameCode(FALSE, code.name_part)
    ELSE IF padding_chars[(i % 3) + 1] \notin code.used_letters
    THEN PadUnused(Add(code, padding_chars[(i % 3) + 1]), i + 1)
    ELSE PadUnused(code, i + 1)

\* while len(name_part) < 4: name_part += padding_chars[i % 3]; i += 1
RECURSIVE PadCyclic(_, _)
PadCyclic(name_part, i) ==
    IF Len(name_part) >= 4 THEN name_part
    ELSE PadCyclic(Append(name_part, padding_chars[(i % 3) + 1]), i + 1)

\* str(n), for n >= 0.
RECURSIVE str(_)
str(n) == IF n < 10 THEN <<Digits[n + 1]>> ELSE Append(str(n \div 10), Digits[(n % 10) + 1])

RECURSIVE SumOrd(_)
SumOrd(text) == IF text = <<>> THEN 0 ELSE ord(Head(text)) + SumOrd(Tail(text))

\* The mutant of Last4 that keeps the whole decimal string.
Last4Whole(text) == text

\* text[-4:]
Last4(text) == IF Len(text) <= 4 THEN text ELSE SubSeq(text, Len(text) - 3, Len(text))

RECURSIVE zfill4(_)
zfill4(text) == IF Len(text) >= 4 THEN text ELSE zfill4(<<"0">> \o text)

\* str(email_ascii_sum)[-4:].zfill(4)
EmailPart(email) == zfill4(Last4(str(SumOrd(email))))

\* The arguments after the two guards at the head of the function.
\* A business name or email that is None.
NoString == <<"None">>
DefaultName == <<"U", "n", "k", "n", "o", "w", "n">>
DefaultEmail ==
    <<"e", "x", "a", "m", "p", "l", "e", "@", "e", "x", "a", "m", "p", "l", "e",
      ".", "c", "o", "m">>
\* The mutant of NameOrDefault that keeps the business name as given.
NameAsGiven(business_name) == business_name

NameOrDefault(business_name) ==
    IF business_name = NoString \/ business_name = <<>>
       \/ \A i \in DOMAIN business_name : business_name[i] = " "
    THEN DefaultName ELSE business_name
EmailOrDefault(email) ==
    IF email = NoString \/ email = <<>> THEN DefaultEmail ELSE email

\* The name code of business_name in program prog.
name_part_of(prog, business_name) ==
    LET name == NameOrDefault(business_name)
        words == split(name)
    IN IF \A i \in DOMAIN name : ~IsConsonant(name[i])
       THEN NameCode(TRUE, PadCyclic(Upper(Prefix(name, 4)), 0))
       ELSE LET built == Words(prog, Code(<<>>, {}), words)
            IN PadUnused(Code(Prefix(built.name_part, 4), built.used_letters), 0)

\* generate_brand_id(business_name, email) of program prog: whether the
\* call returns, and the Brand ID it returns.
generate_brand_id(prog, business_name, email) ==
    LET code == name_part_of(prog, business_name)
    IN [terminates |-> code.terminates,
        name_part |-> code.name_part,
        email_part |-> EmailPart(EmailOrDefault(email)),
        brand_id |-> <<"B", "R", "A", "N", "D", "-">> \o code.name_part \o <<"-">>
                     \o EmailPart(EmailOrDefault(email))]

\* The business names and emails the calls are made with.
MaxNameLen == 3
NameAlphabet == {"a", "b", "X", "y", "Z", " ", "1"}
RECURSIVE StringsUpTo(_, _)
StringsUpTo(alphabet, n) ==
    IF n = 0 THEN { <<>> }
    ELSE LET shorter == StringsUpTo(alphabet, n - 1)
         IN shorter \cup { Append(t, c) : t \in shorter, c \in alphabet }
\* The business name of the first example of the docstring.
AcmeDesignStudio ==
    <<"A", "c", "m", "e", " ", "D", "e", "s", "i", "g", "n", " ",
      "S", "t", "u", "d", "i", "o">>
\* The examples of the docstring of generate_brand_id in program prog: the
\* business name and the name code stated for it.
DocExamples(prog) ==
    { [name |-> AcmeDesignStudio, code |-> <<"A", "C", "D", "S">>],
      [name |-> <<"Q", "u", "i", "c", "k", " ", "S", "h", "o", "p">>,
       code |-> <<"Q", "C", "S", "H">>],
      [name |-> <<"P", "r", "o", "f", "e", "s", "s", "i", "o", "n", "a", "l",
                " ", "S", "e", "r", "v", "i", "c", "e", "s">>,
       code |-> <<"P", "R", "S", "V">>],
      [name |-> <<"A", "E", "I", "O", "U">>,
       code |-> <<"A", "E", "I", "O">>],
      [name |-> <<"X", "Y", "Z", " ", "C", "o", "r", "p">>,
       code |-> <<"X", "Y", "C", "R">>],
      [name |-> <<"A", "B">>,
       code |-> IF prog = "app" THEN <<"A", "B", "X", "Y">>
                ELSE <<"A", "X", "B", "Y">>] }

\* One-word business names, and the same names followed by the word Corp.
OneWordNames == StringsUpTo(NameAlphabet \ {" "}, MaxNameLen - 1) \ { <<>> }
WithCorp(name) == name \o <<" ">> \o Corp

BusinessNames ==
    {NoString, Corp}
    \cup StringsUpTo(NameAlphabet, MaxNameLen)
    \cup { x.name : x \in DocExamples("app") }
    \cup { WithCorp(n) : n \in OneWordNames }
Emails ==
    { NoString, <<>>, <<"a", "@", "b">>, <<"z", "9", "@", "b", ".", "c", "o">>,
      [i \in 1..90 |-> "z"] }

(***************************************************************************)
(* Single calls of the functions above: Init draws the arguments, the      *)
(* action of the function makes the call.                                  *)
(***************************************************************************)
AllPrograms == Programs \cup Processors

SendEmailCalls ==
    [fn : {"send_email"}, status : {"called"}, configured : BOOLEAN,
     prepared : {"ok", "raise"}, script : SmtpScripts]

BrandIdCalls ==
    [fn : {"generate_brand_id"}, status : {"called"},
     business_name : BusinessNames, email : Emails]

\* The ages, in seconds, of the claimed times the staleness check is made
\* with: in the future, now, and either side of max_age_minutes.
StaleAges == {0 - 60, 0, 120, 299, 300, 301, 600}

StaleTimes(clock) ==
    { EventTime("missing", 0), EventTime("unparseable", 0) }
    \cup { EventTime(kind, clock - age) : kind \in {"time", "naive"}, age \in StaleAges }

StaleCalls ==
    [fn : {"is_stale_event"}, status : {"called"}, event_time : StaleTimes(0)]

\* get_etsy_receipts under the retry decorator of etsy_listener.py.  A reply
\* is what one requests.get gives: no reply at all (a network error), an
\* HTTP status, or status 200 with a JSON body that is not an object.
stop_max_attempt_number == 3

Reply(kind, status) == [kind |-> kind, status |-> status]
Statuses == {200, 401, 404, 429, 500, 503}
Replies ==
    {Reply("network", 0), Reply("not_an_object", 200)}
    \cup { Reply("http", st) : st \in Statuses }

\* The exception one run of the function body raises on a reply:
\* requests.get raises ConnectionError, raise_for_status raises HTTPError
\* for a status from 400 to 599, data.get raises AttributeError; the first
\* two are subclasses of requests.exceptions.RequestException.
Exception(class, request_exception, has_response, status) ==
    [class |-> class, request_exception |-> request_exception,
     has_response |-> has_response, status |-> status]
NoException == Exception("none", FALSE, FALSE, 0)
Raised(reply) ==
    IF reply.kind = "network"
    THEN Exception("ConnectionError", TRUE, FALSE, 0)
    ELSE IF reply.status >= 400 /\ reply.status < 600
    THEN Exception("HTTPError", TRUE, TRUE, reply.status)
    ELSE IF reply.kind = "not_an_object"
    THEN Exception("AttributeError", FALSE, FALSE, 0)
    ELSE NoException

retry_if_api_error(exception) ==
    IF exception.request_exception THEN TRUE
    ELSE IF exception.has_response /\ exception.status = 429 THEN TRUE
    ELSE IF /\ exception.has_response
            /\ 500 <= exception.status
            /\ exception.status < 600 THEN TRUE
    ELSE FALSE

\* The decorated call from attempt n on: the attempts made and how the call
\* ends.
RECURSIVE retry(_, _)
retry(script, n) ==
    LET exception == Raised(script[n])
    IN IF exception = NoException
       THEN [attempts |-> n, outcome |-> "receipts", raised |-> "none"]
       ELSE IF ~retry_if_api_error(exception) \/ n >= stop_max_attempt_number
       THEN [attempts |-> n, outcome |-> "raised", raised |-> exception.class]
       ELSE retry(script, n + 1)

get_etsy_receipts(configured, script) ==
    IF ~configured
    THEN [attempts |-> 1, outcome |-> "empty", raised |-> "none"]
    ELSE retry(script, 1)

ReceiptCalls ==
    [fn : {"get_etsy_receipts"}, status : {"called"}, configured : BOOLEAN,
     script : [1..stop_max_attempt_number -> Replies]]

CallsOf(prog) ==
    SendEmailCalls
    \cup (IF prog \in Processors THEN BrandIdCalls ELSE {})
    \cup (IF prog \in Programs THEN StaleCalls ELSE {})
    \cup (IF prog = "etsy_listener" THEN ReceiptCalls ELSE {})

send_email_call ==
    /\ call # <<>>
    /\ call.status = "called"
    /\ call.fn = "send_email"
    /\ call' = [fn |-> "send_email", status |-> "returned",
                configured |-> call.configured, prepared |-> call.prepared,
                script |-> call.script,
                result |-> send_email(program, call.configured, call.prepared,
                                      call.script)]
    /\ UNCHANGED <<orders, inserted, brands, program, PROCESSED_EVENTS, PROCESSED_ORDERS, now, sent,
                   resent, evicted, last, threads>>

generate_brand_id_call ==
    /\ call # <<>>
    /\ call.status = "called"
    /\ call.fn = "generate_brand_id"
    /\ call' = [fn |-> "generate_brand_id", status |-> "returned",
                business_name |-> call.business_name, email |-> call.email,
                result |-> generate_brand_id(program, call.business_name, call.email)]
    /\ UNCHANGED <<orders, inserted, brands, program, PROCESSED_EVENTS, PROCESSED_ORDERS, now, sent,
                   resent, evicted, last, threads>>

\* The staleness check of the preview webhook: is_stale_event(event_time) in
\* app.py, the inline statements in etsy_listener.py.
is_stale_event_call ==
    /\ call # <<>>
    /\ call.status = "called"
    /\ call.fn = "is_stale_event"
    /\ call' = [fn |-> "is_stale_event", status |-> "returned",
                event_time |-> call.event_time,
                result |-> [stale |-> IF program = "app"
                                      THEN is_stale_event(call.event_time, now)
                                      ELSE PreviewIsStale(call.event_time, now)]]
    /\ UNCHANGED <<orders, inserted, brands, program, PROCESSED_EVENTS, PROCESSED_ORDERS, now, sent,
                   resent, evicted, last, threads>>

get_etsy_receipts_call ==
    /\ call # <<>>
    /\ call.status = "called"
    /\ call.fn = "get_etsy_receipts"
    /\ call' = [fn |-> "get_etsy_receipts", status |-> "returned",
                configured |-> call.configured, script |-> call.script,
                result |-> get_etsy_receipts(call.configured, call.script)]
    /\ UNCHANGED <<orders, inserted, brands, program, PROCESSED_EVENTS, PROCESSED_ORDERS, now, sent,
                   resent, evicted, last, threads>>

InitCalls ==
    /\ program \in AllPrograms
    /\ PROCESSED_EVENTS = <<>>
    /\ PROCESSED_ORDERS = <<>>
    /\ now = 0
    /\ sent = {}
    /\ resent = {}
    /\ evicted = {}
    /\ last = NoDelivery
    /\ threads = <<>>
    /\ brands = <<>>
    /\ call \in CallsOf(program)
    /\ inserted = <<>>
    /\ orders = <<>>

NextCalls ==
    \/ send_email_call
    \/ generate_brand_id_call
    \/ is_stale_event_call
    \/ get_etsy_receipts_call

SpecCalls == InitCalls /\ [][NextCalls]_vars

(***************************************************************************)
(* Overlapping deliveries to the preview webhook of etsy_listener.py: each *)
(* request thread runs handle_preview_request statement by statement, and  *)
(* the clock may advance between the statements.  One statement group that *)
(* reads or writes PROCESSED_EVENTS is one step.                           *)
(***************************************************************************)
Threads == {"t1", "t2"}

Idle ==
    [pc |-> "idle", event_id |-> None, event_time |-> EventTime("missing", 0),
     payload |-> "valid", resp |-> 0, stale |-> FALSE]

ConcDeliveries(clock) ==
    [event_id : EventIds,
     event_time : { EventTime("missing", 0), EventTime("time", clock - MAX_AGE_MINUTES * 60) },
     payload : Payloads]

At(t, pc) == threads[t].pc = pc
Goto(t, pc) == threads' = [threads EXCEPT ![t].pc = pc]
Respond(t, resp) == threads' = [threads EXCEPT ![t].pc = "done", ![t].resp = resp]

\* data = request.json; event_id = data.get('eventId'); event_time = data.get('createdAt')
Receive(t) ==
    /\ At(t, "idle")
    /\ \E d \in ConcDeliveries(now) :
          threads' = [threads EXCEPT ![t] =
                        [pc |-> "check", event_id |-> d.event_id,
                         event_time |-> d.event_time, payload |-> d.payload,
                         resp |-> 0, stale |-> FALSE]]
    /\ UNCHANGED <<orders, inserted, call, brands, program, PROCESSED_EVENTS, PROCESSED_ORDERS, now, sent, resent,
                   evicted, last>>

\* Check if we've already processed this event SUCCESSFULLY
CheckProcessed(t) ==
    /\ At(t, "check")
    /\ IF AlreadyProcessed(PROCESSED_EVENTS, threads[t].event_id)
       THEN Respond(t, 204)
       ELSE Goto(t, "staleness")
    /\ UNCHANGED <<orders, inserted, call, brands, program, PROCESSED_EVENTS, PROCESSED_ORDERS, now, sent, resent,
                   evicted, last>>

\* Check if the event is too old (stale); if so record it and return 204
CheckStale(t) ==
    /\ At(t, "staleness")
    /\ IF PreviewIsStale(threads[t].event_time, now)
       THEN /\ PROCESSED_EVENTS' = StaleSkip(PROCESSED_EVENTS, threads[t].event_id).ledger
            /\ threads' = [threads EXCEPT ![t].pc = "done", ![t].resp = 204,
                                          ![t].stale = TRUE]
       ELSE /\ Goto(t, "extract")
            /\ UNCHANGED PROCESSED_EVENTS
    /\ evicted' = EvictedAfter("PROCESSED_EVENTS", PROCESSED_EVENTS, PROCESSED_EVENTS')
    /\ UNCHANGED <<orders, inserted, call, brands, program, PROCESSED_ORDERS, now, sent, resent, last>>

\* Extract fields from the webhook payload; 400 without a logo; the except
\* branch when the extraction raises
ExtractFields(t) ==
    /\ At(t, "extract")
    /\ IF threads[t].payload = "malformed"
       THEN /\ PROCESSED_EVENTS' = OnException(PROCESSED_EVENTS, threads[t].event_id)
            /\ Respond(t, 500)
       ELSE IF threads[t].payload = "nologo"
       THEN /\ Respond(t, 400)
            /\ UNCHANGED PROCESSED_EVENTS
       ELSE /\ Goto(t, "template")
            /\ UNCHANGED PROCESSED_EVENTS
    /\ evicted' = EvictedAfter("PROCESSED_EVENTS", PROCESSED_EVENTS, PROCESSED_EVENTS')
    /\ UNCHANGED <<orders, inserted, call, brands, program, PROCESSED_ORDERS, now, sent, resent, last>>

\* Brand ID, update_notion_database and generate_excel_template; 500 when no
\* file comes back
GenerateTemplate(t) ==
    /\ At(t, "template")
    /\ \/ Goto(t, "send")
       \/ Respond(t, 500)
    /\ UNCHANGED <<orders, inserted, call, brands, program, PROCESSED_EVENTS, PROCESSED_ORDERS, now, sent, resent,
                   evicted, last>>

\* send_email returned True
SendEmailOk(t) ==
    /\ At(t, "send")
    /\ Goto(t, "mark")
    /\ sent' = SentAfter(threads[t].event_id, "ok")
    /\ resent' = ResentAfter(threads[t].event_id, "ok")
    /\ UNCHANGED <<orders, inserted, call, brands, program, PROCESSED_EVENTS, PROCESSED_ORDERS, now, evicted, last>>

\* send_email returned False (500, nothing recorded) or raised (the except
\* branch)
SendEmailFailed(t) ==
    /\ At(t, "send")
    /\ Respond(t, 500)
    /\ \/ PROCESSED_EVENTS' = SendFailed(PROCESSED_EVENTS, threads[t].event_id, 0).ledger
       \/ PROCESSED_EVENTS' = OnException(PROCESSED_EVENTS, threads[t].event_id)
    /\ evicted' = EvictedAfter("PROCESSED_EVENTS", PROCESSED_EVENTS, PROCESSED_EVENTS')
    /\ UNCHANGED <<orders, inserted, call, brands, program, PROCESSED_ORDERS, now, sent, resent, last>>

\* Mark this event as successfully processed; return 204
MarkDone(t) ==
    /\ At(t, "mark")
    /\ PROCESSED_EVENTS' = MarkProcessed(PROCESSED_EVENTS, threads[t].event_id)
    /\ Respond(t, 204)
    /\ evicted' = EvictedAfter("PROCESSED_EVENTS", PROCESSED_EVENTS, PROCESSED_EVENTS')
    /\ UNCHANGED <<orders, inserted, call, brands, program, PROCESSED_ORDERS, now, sent, resent, last>>

\* Time passes while requests are in flight.
Tick ==
    /\ now < MaxNow
    /\ now' = now + 1
    /\ UNCHANGED <<orders, inserted, call, brands, program, PROCESSED_EVENTS, PROCESSED_ORDERS, sent, resent, evicted,
                   last, threads>>

InitConc ==
    /\ program = "etsy_listener"
    /\ PROCESSED_EVENTS = <<>>
    /\ PROCESSED_ORDERS = <<>>
    /\ now = 0
    /\ sent = {}
    /\ resent = {}
    /\ evicted = {}
    /\ last = NoDelivery
    /\ threads = [t \in Threads |-> Idle]
    /\ brands = <<>>
    /\ call = <<>>
    /\ inserted = <<>>
    /\ orders = <<>>

NextConc ==
    \/ \E t \in Threads : Receive(t)
    \/ \E t \in Threads : CheckProcessed(t)
    \/ \E t \in Threads : CheckStale(t)
    \/ \E t \in Threads : ExtractFields(t)
    \/ \E t \in Threads : GenerateTemplate(t)
    \/ \E t \in Threads : SendEmailOk(t)
    \/ \E t \in Threads : SendEmailFailed(t)
    \/ \E t \in Threads : MarkDone(t)
    \/ Tick

SpecConc == InitConc /\ [][NextConc]_vars

(***************************************************************************)
(* Overlapping deliveries followed through the statements that record an   *)
(* event: `if len(PROCESSED_EVENTS) >= MAX_CACHE_SIZE`, `popitem` and the  *)
(* item assignment are three statements of the request thread, and another *)
(* thread may run between any two of them.  No lock is held.               *)
(***************************************************************************)
\* What a run of the pipeline records: processed=True (the email was sent),
\* processed=False (stale, or the except branch), or nothing (400, or 500
\* without a record).
Recordings == {"True", "False", "nothing"}

RecordIdle == [pc |-> "idle", event_id |-> None, records |-> "nothing", handling |-> FALSE]

\* data = request.json; event_id = data.get('eventId'); the rest of the
\* request decides what the run will record.
Arrive(t) ==
    /\ threads[t].pc = "idle"
    /\ \E e \in EventIds : \E rec \in Recordings :
          threads' = [threads EXCEPT ![t] =
                        [pc |-> "check", event_id |-> e, records |-> rec,
                         handling |-> FALSE]]
    /\ UNCHANGED <<orders, inserted, call, brands, program, PROCESSED_EVENTS, PROCESSED_ORDERS, now,
                   sent, resent, evicted, last>>

\* The duplicate check, then the pipeline up to the statement that records.
RunPipeline(t) ==
    /\ threads[t].pc = "check"
    /\ IF AlreadyProcessed(PROCESSED_EVENTS, threads[t].event_id)
          \/ threads[t].records = "nothing"
       THEN threads' = [threads EXCEPT ![t].pc = "done"]
       ELSE threads' = [threads EXCEPT ![t].pc = "len"]
    /\ UNCHANGED <<orders, inserted, call, brands, program, PROCESSED_EVENTS, PROCESSED_ORDERS, now,
                   sent, resent, evicted, last>>

\* if len(PROCESSED_EVENTS) >= MAX_CACHE_SIZE:
CheckSize(t) ==
    /\ threads[t].pc = "len"
    /\ IF Len(PROCESSED_EVENTS) >= MAX_CACHE_SIZE
       THEN threads' = [threads EXCEPT ![t].pc = "pop"]
       ELSE threads' = [threads EXCEPT ![t].pc = "set"]
    /\ UNCHANGED <<orders, inserted, call, brands, program, PROCESSED_EVENTS, PROCESSED_ORDERS, now,
                   sent, resent, evicted, last>>

\* PROCESSED_EVENTS.popitem(last=False); on an empty ledger it raises
\* KeyError, which the except branch of the handler catches (it records
\* processed=False itself) unless the statement is the one of that branch.
Evict(t) ==
    /\ threads[t].pc = "pop"
    /\ IF PROCESSED_EVENTS # <<>>
       THEN /\ PROCESSED_EVENTS' = Tail(PROCESSED_EVENTS)
            /\ threads' = [threads EXCEPT ![t].pc = "set"]
       ELSE /\ UNCHANGED PROCESSED_EVENTS
            /\ threads' = [threads EXCEPT ![t] =
                             IF threads[t].handling
                             THEN [threads[t] EXCEPT !.pc = "done"]
                             ELSE [threads[t] EXCEPT !.pc = "len", !.records = "False",
                                                     !.handling = TRUE]]
    /\ UNCHANGED <<orders, inserted, call, brands, program, PROCESSED_ORDERS, now, sent, resent,
                   evicted, last>>

\* PROCESSED_EVENTS[event_id] = {"timestamp": time.time(), "processed": ...}
Insert(t) ==
    /\ threads[t].pc = "set"
    /\ PROCESSED_EVENTS' = SetItem(PROCESSED_EVENTS, threads[t].event_id,
                                   threads[t].records = "True")
    /\ threads' = [threads EXCEPT ![t].pc = "done"]
    /\ UNCHANGED <<orders, inserted, call, brands, program, PROCESSED_ORDERS, now, sent, resent,
                   evicted, last>>

\* The response is sent; the thread takes the next request.
Leave(t) ==
    /\ threads[t].pc = "done"
    /\ threads' = [threads EXCEPT ![t] = RecordIdle]
    /\ UNCHANGED <<orders, inserted, call, brands, program, PROCESSED_EVENTS, PROCESSED_ORDERS, now,
                   sent, resent, evicted, last>>

InitRace ==
    /\ program \in Programs
    /\ PROCESSED_EVENTS = <<>>
    /\ PROCESSED_ORDERS = <<>>
    /\ now = 0
    /\ sent = {}
    /\ resent = {}
    /\ evicted = {}
    /\ last = NoDelivery
    /\ threads = [t \in Threads |-> RecordIdle]
    /\ brands = <<>>
    /\ call = <<>>
    /\ inserted = <<>>
    /\ orders = <<>>

NextRace ==
    \/ \E t \in Threads : Arrive(t)
    \/ \E t \in Threads : RunPipeline(t)
    \/ \E t \in Threads : CheckSize(t)
    \/ \E t \in Threads : Evict(t)
    \/ \E t \in Threads : Insert(t)
    \/ \E t \in Threads : Leave(t)

SpecRace == InitRace /\ [][NextRace]_vars

(***************************************************************************)
(* The brand records written by the preview webhook of etsy_listener.py:   *)
(* non-overlapping deliveries, with time passing between them.             *)
(***************************************************************************)
\* The form answers 'Company Name' and 'Email' of a delivery.
CompanyNames == {"Acme", "Bolt"}
CustomerEmails == {"a@x", "b@x"}

\* hashlib.md5(f"{business_name}-{email}-{time.time()}").hexdigest()[:8].upper():
\* the digest of the three values, kept as the values it is computed from.
PreviewBrandId(business_name, email, clock) ==
    <<"md5", business_name, email, clock>>

\* The pages of the brand database whose Email equals email.
PagesOf(store, email) == { i \in DOMAIN store : store[i].email = email }

\* existing_pages[0]: the first page found for email.
FirstPage(store, email) ==
    CHOOSE i \in PagesOf(store, email) : \A j \in PagesOf(store, email) : i <= j

\* The BrandID stored for email, <<>> when the database has no page for it.
StoredBrandId(store, email) ==
    IF PagesOf(store, email) = {} THEN <<>>
    ELSE store[FirstPage(store, email)].brand_id

\* update_notion_database: the first page found for the email is updated
\* with the properties of this delivery, or a page is created.
update_notion_database(store, business_name, email, brand_id) ==
    LET page == [name |-> business_name, email |-> email, brand_id |-> brand_id]
    IN IF PagesOf(store, email) = {} THEN Append(store, page)
       ELSE [store EXCEPT ![FirstPage(store, email)] = page]

\* The deliveries followed here: with an event id, without createdAt.
StoreDeliveries(clock) ==
    { d \in Deliveries({"e1", "e2"}, clock) : d.event_time.kind = "missing" }

\* POST /preview_webhook of etsy_listener.py, with the brand database.
preview_brand_record ==
    /\ program = "etsy_listener"
    /\ \E d \in StoreDeliveries(now) : \E out \in OutcomesFor(d.payload) :
       \E business_name \in CompanyNames : \E email \in CustomerEmails :
          LET r == PreviewRun(PROCESSED_EVENTS, d, now, out)
              generated == r.stage \in {"template", "send", "done"}
              brand_id == PreviewBrandId(business_name, email, now)
              before == IF PagesOf(brands, email) = {} THEN <<>>
                        ELSE <<brands[FirstPage(brands, email)]>>
              after == IF r.store_writes > 0
                       THEN update_notion_database(brands, business_name, email, brand_id)
                       ELSE brands
          IN /\ PROCESSED_EVENTS' = r.ledger
             /\ brands' = after
             /\ last' = [kind |-> "brand", business_name |-> business_name,
                         email |-> email, generated |-> generated,
                         brand_id |-> IF generated THEN brand_id ELSE <<>>,
                         page_before |-> before,
                         stored_before |-> StoredBrandId(brands, email),
                         stored_after |-> StoredBrandId(after, email)]
    /\ UNCHANGED <<orders, inserted, call, program, PROCESSED_ORDERS, now, sent, resent, evicted, threads>>

InitStore ==
    /\ program = "etsy_listener"
    /\ PROCESSED_EVENTS = <<>>
    /\ PROCESSED_ORDERS = <<>>
    /\ now = 0
    /\ sent = {}
    /\ resent = {}
    /\ evicted = {}
    /\ last = NoDelivery
    /\ threads = <<>>
    /\ brands = <<>>
    /\ call = <<>>
    /\ inserted = <<>>
    /\ orders = <<>>

NextStore ==
    \/ preview_brand_record
    \/ Tick

SpecStore == InitStore /\ [][NextStore]_vars

(***************************************************************************)
(* update_notion_database under overlapping deliveries: Flask serves each  *)
(* request in its own thread, and the query by email and the write that    *)
(* follows it are two requests to the document store.                      *)
(***************************************************************************)
\* The pages the brand database is followed up to.
MaxPages == 3

UpsertIdle ==
    [pc |-> "idle", event_id |-> None, business_name |-> "None", email |-> "None",
     existing_pages |-> {}]

\* The deliveries in flight.
InFlight == { t \in Threads : threads[t].pc # "idle" }

\* A delivery whose event id no delivery in flight carries reaches
\* update_notion_database(fields, brand_id, event_id).
UpsertBegin(t) ==
    /\ threads[t].pc = "idle"
    /\ Len(brands) + Cardinality(InFlight) < MaxPages
    /\ \E id \in EventIds \ { threads[u].event_id : u \in InFlight } :
       \E business_name \in CompanyNames : \E email \in CustomerEmails :
          threads' = [threads EXCEPT ![t] =
                        [pc |-> "query", event_id |-> id,
                         business_name |-> business_name, email |-> email,
                         existing_pages |-> {}]]
    /\ UNCHANGED <<orders, inserted, call, brands, program, PROCESSED_EVENTS,
                   PROCESSED_ORDERS, now, sent, resent, evicted, last>>

\* existing_pages = notion.databases.query(filter Email equals email)
QueryByEmail(t) ==
    /\ threads[t].pc = "query"
    /\ threads' = [threads EXCEPT ![t].pc = "write",
                                  ![t].existing_pages = PagesOf(brands, threads[t].email)]
    /\ UNCHANGED <<orders, inserted, call, brands, program, PROCESSED_EVENTS,
                   PROCESSED_ORDERS, now, sent, resent, evicted, last>>

\* if existing_pages: notion.pages.update(existing_pages[0]) else:
\* notion.pages.create(...), on the result of the query made before.
UpdateOrCreate(t) ==
    /\ threads[t].pc = "write"
    /\ LET th == threads[t]
           page == [name |-> th.business_name, email |-> th.email,
                    brand_id |-> PreviewBrandId(th.business_name, th.email, now)]
           first == CHOOSE i \in th.existing_pages :
                        \A j \in th.existing_pages : i <= j
       IN /\ brands' = IF th.existing_pages = {} THEN Append(brands, page)
                       ELSE [brands EXCEPT ![first] = page]
          /\ last' = [kind |-> "upsert", event_id |-> th.event_id, email |-> th.email,
                      created |-> th.existing_pages = {},
                      pages_before |-> Cardinality(PagesOf(brands, th.email))]
    /\ threads' = [threads EXCEPT ![t] = UpsertIdle]
    /\ UNCHANGED <<orders, inserted, call, program, PROCESSED_EVENTS,
                   PROCESSED_ORDERS, now, sent, resent, evicted>>

InitUpsert ==
    /\ program \in Programs
    /\ PROCESSED_EVENTS = <<>>
    /\ PROCESSED_ORDERS = <<>>
    /\ now = 0
    /\ sent = {}
    /\ resent = {}
    /\ evicted = {}
    /\ last = NoDelivery
    /\ threads = [t \in Threads |-> UpsertIdle]
    /\ brands = <<>>
    /\ call = <<>>
    /\ inserted = <<>>
    /\ orders = <<>>

NextUpsert ==
    \E t \in Threads :
        \/ UpsertBegin(t)
        \/ QueryByEmail(t)
        \/ UpdateOrCreate(t)

SpecUpsert == InitUpsert /\ [][NextUpsert]_vars

(***************************************************************************)
(* Overlapping runs of process_pending_records in app.py: the job of the   *)
(* BackgroundScheduler runs in the scheduler's thread, POST /run-processor  *)
(* calls the same function in the thread of the request.  A run queries    *)
(* the records once, then sends and updates record by record.              *)
(***************************************************************************)
Runners == {"scheduler", "manual"}

RunIdle == [pc |-> "idle", results |-> <<>>, records |-> <<>>]

\* results = notion.databases.query(...).get("results", []): the pages
\* selected and the properties they had when the query ran.
StartRun(r) ==
    /\ threads[r].pc = "idle"
    /\ threads' = [threads EXCEPT ![r] =
                      [pc |-> "loop", results |-> PendingQuery("app", brands),
                       records |-> brands]]
    /\ UNCHANGED <<orders, inserted, call, brands, program, PROCESSED_EVENTS,
                   PROCESSED_ORDERS, now, sent, resent, evicted, last>>

\* The loop body for the next record of results, up to send_email; after a
\* send that returned True the run goes on to notion.pages.update.
SendRecord(r) ==
    /\ threads[r].pc = "loop"
    /\ threads[r].results # <<>>
    /\ \E out \in { o \in RecordOutcomes : o.update = "ok" } :
          LET page == Head(threads[r].results)
              done == app_process_record(threads[r].records[page], out)
              emailed == IF done.send = "ok" THEN {page} ELSE {}
          IN /\ sent' = sent \cup emailed
             /\ resent' = resent \cup (sent \cap emailed)
             /\ last' = [kind |-> "run", runner |-> r, page |-> page,
                         stage |-> done.stage, send |-> done.send,
                         overlap |-> \A q \in Runners : threads[q].pc # "idle",
                         pending |-> Selected("app", brands[page])]
             /\ threads' = [threads EXCEPT
                              ![r].pc = IF done.send = "ok" THEN "update" ELSE "loop",
                              ![r].results = IF done.send = "ok" THEN @ ELSE Tail(@)]
    /\ UNCHANGED <<orders, inserted, call, brands, program, PROCESSED_EVENTS,
                   PROCESSED_ORDERS, now, evicted>>

\* if email_sent: notion.pages.update(page_id, BrandID, Email Sent = True);
\* an exception of the update is caught by the loop (continue).
UpdateRecord(r) ==
    /\ threads[r].pc = "update"
    /\ \E out \in { o \in RecordOutcomes : o.send = "ok" } :
          LET page == Head(threads[r].results)
              done == app_process_record(threads[r].records[page], out)
          IN brands' = IF out.update = "ok"
                       THEN [brands EXCEPT ![page] = done.rec]
                       ELSE brands
    /\ threads' = [threads EXCEPT ![r].pc = "loop", ![r].results = Tail(@)]
    /\ UNCHANGED <<orders, inserted, call, program, PROCESSED_EVENTS,
                   PROCESSED_ORDERS, now, sent, resent, evicted, last>>

\* The loop is over: the run returns processed_count.
EndRun(r) ==
    /\ threads[r].pc = "loop"
    /\ threads[r].results = <<>>
    /\ threads' = [threads EXCEPT ![r] = RunIdle]
    /\ UNCHANGED <<orders, inserted, call, brands, program, PROCESSED_EVENTS,
                   PROCESSED_ORDERS, now, sent, resent, evicted, last>>

InitOverlap ==
    /\ program = "app"
    /\ PROCESSED_EVENTS = <<>>
    /\ PROCESSED_ORDERS = <<>>
    /\ now = 0
    /\ sent = {}
    /\ resent = {}
    /\ evicted = {}
    /\ last = NoDelivery
    /\ threads = [r \in Runners |-> RunIdle]
    /\ brands \in [Pages -> StoredRecords]
    /\ call = <<>>
    /\ inserted = <<>>
    /\ orders = <<>>

NextOverlap ==
    \E r \in Runners :
        \/ StartRun(r)
        \/ SendRecord(r)
        \/ UpdateRecord(r)
        \/ EndRun(r)

SpecOverlap == InitOverlap /\ [][NextOverlap]_vars

\* Non-overlapping deliveries of the preview webhook, in either program,
\* each carrying an event id.
Spec == Init /\ [][Next]_vars

\* Non-overlapping deliveries some of which carry no event id.
SpecNoId == Init /\ [][NextNoId]_vars

(***************************************************************************)
(* Properties of non-overlapping deliveries (Spec, SpecNoId).              *)
(***************************************************************************)
HandledPreview == last.kind = "preview"

C3_DuplicateShortCircuit ==
    (HandledPreview /\ last.was_processed)
        => /\ last.resp = 204
           /\ last.send = "none"
           /\ last.store_writes = 0
           /\ ~last.ledger_changed

\* C3 witness: a fresh, valid delivery of an id recorded processed=true.
C3_Witness ==
    /\ HandledPreview
    /\ last.was_processed
    /\ last.event_id \in EventIds
    /\ last.payload = "valid"
    /\ ~last.too_old
    /\ last.resp = 204

\* C6: a delivery without the logo field (that is neither a duplicate of a
\* processed event nor stale, the two checks the handler makes first) is
\* answered 400 and leaves the ledger as it was.
C6_MissingLogoRejected ==
    (HandledPreview /\ last.payload = "nologo" /\ ~last.was_processed /\ ~last.too_old)
        => (last.resp = 400 /\ ~last.ledger_changed)

\* C7: whenever a delivery that carries an event id is answered 5xx, the
\* ledger afterwards holds the id with processed=false.
C7_ServerErrorRecorded ==
    (HandledPreview /\ last.resp = 500 /\ last.event_id \in EventIds)
        => last.entry_after = "unprocessed"

\* C8: a delivery for which send_email returned False ends neither with its
\* id recorded processed=true nor with a success response, and a run leaves
\* its id recorded processed=true only when it was a duplicate or its send
\* succeeded.
C8_FailedSendNotProcessed ==
    HandledPreview =>
        /\ last.send = "fail" => (last.entry_after # "processed" /\ last.resp = 500)
        /\ (last.entry_after = "processed" /\ ~last.was_processed) => last.send = "ok"

\* C8 witness: send_email returned False for a delivery with an event id.
C8_Witness ==
    /\ HandledPreview
    /\ last.send = "fail"
    /\ last.event_id \in EventIds
    /\ last.resp = 500

\* C9: a delivery without an event id is never tracked: it leaves the ledger
\* unchanged, is never short-circuited as a duplicate, and no entry is ever
\* kept under the missing id.
C9_NoIdNeverTracked ==
    /\ ~Seen(PROCESSED_EVENTS, None)
    /\ (HandledPreview /\ last.event_id = None)
          => (~last.ledger_changed /\ last.stage # "duplicate")

C5_LedgersBounded ==
    /\ Len(PROCESSED_EVENTS) <= MAX_CACHE_SIZE
    /\ Len(PROCESSED_ORDERS) <= MAX_CACHE_SIZE

\* C5 witness: both ledgers are full and both have evicted an entry.
C5_Witness ==
    /\ Len(PROCESSED_EVENTS) = MAX_CACHE_SIZE
    /\ Len(PROCESSED_ORDERS) = MAX_CACHE_SIZE
    /\ evicted = {"PROCESSED_EVENTS", "PROCESSED_ORDERS"}

(***************************************************************************)
(* Properties of the ledger entries (SpecEntries).                         *)
(***************************************************************************)
HandledEntry == last.kind = "entry"

\* C24: a delivery that records an id the ledger already holds, when the
\* ledger is at capacity, evicts nothing: every other entry present before
\* the delivery is still present after it.
C24_RerecordEvictsNothing ==
    (HandledEntry /\ last.entry_before # "absent" /\ last.full_before)
        => last.dropped = {}

\* C25: a delivery that records a new id when the ledger holds
\* MAX_CACHE_SIZE entries removes exactly one entry, the one whose id came
\* to be held earliest, however often that entry was read or overwritten.
C25_EvictsFirstInserted ==
    (/\ HandledEntry
     /\ last.entry_before = "absent"
     /\ last.entry_after # "absent"
     /\ last.full_before)
        => last.dropped = {last.first_inserted}

\* C27: a redelivery of an event id whose entry has processed=false is not
\* short-circuited: it runs the pipeline from the staleness check on (a
\* stale redelivery is acknowledged as stale, a fresh one goes on to the
\* extraction), and a run that sends the email records processed=true.
C27_UnprocessedRetried ==
    (HandledEntry /\ last.entry_before = "unprocessed")
        => /\ last.stage # "duplicate"
           /\ last.too_old <=> last.stage = "stale"
           /\ last.stage = "done" <=> last.send = "ok"
           /\ last.send = "ok" => last.entry_after = "processed"

\* C27 witness: an id recorded processed=false is delivered again, and this
\* run sends the email and records processed=true.
C27_Witness ==
    /\ HandledEntry
    /\ last.entry_before = "unprocessed"
    /\ last.stage = "done"
    /\ last.send = "ok"
    /\ last.entry_after = "processed"

(***************************************************************************)
(* Properties of overlapping deliveries (SpecConc).                        *)
(***************************************************************************)
\* Every request thread has answered a fresh, valid delivery of event id e
\* with 204.
BothAnswered(e) ==
    \A t \in Threads :
        /\ threads[t].pc = "done"
        /\ threads[t].event_id = e
        /\ threads[t].payload = "valid"
        /\ threads[t].resp = 204
        /\ ~threads[t].stale

C26_BoundedUnderConcurrency == Len(PROCESSED_EVENTS) <= MAX_CACHE_SIZE

(***************************************************************************)
(* Properties of the order poller (SpecPoll).                              *)
(***************************************************************************)
\* The orders the last pass went through.
PolledOrders == IF last.kind = "pass" THEN last.orders ELSE <<>>

\* C11: the poller skips an order only when its ledger entry has
\* processed=true; an order recorded processed=false by an earlier pass is
\* processed again by a later pass that returns it.
C11_FailedOrderRetried ==
    \A i \in DOMAIN PolledOrders :
        PolledOrders[i].skipped => PolledOrders[i].entry_before = "processed"

C28_BrandIdResolution ==
    \A i \in DOMAIN PolledOrders :
        LET o == PolledOrders[i]
        IN ~o.skipped =>
              /\ o.note = "tagged" => (o.brand_source = "note" /\ ~o.looked_up)
              /\ o.looked_up => o.note = "untagged"
              /\ o.note = "untagged" => o.looked_up
              /\ o.brand_source = "none"
                    => (o.send = "none" /\ o.entry_after = "unprocessed")

\* C28 witness: an order without a tag whose buyer has no brand record: the
\* lookup was made, no email was sent, the order is recorded processed=false.
C28_Witness ==
    \E i \in DOMAIN PolledOrders :
        /\ PolledOrders[i].note = "untagged"
        /\ PolledOrders[i].looked_up
        /\ PolledOrders[i].brand_source = "none"
        /\ PolledOrders[i].send = "none"
        /\ PolledOrders[i].entry_before = "absent"
        /\ PolledOrders[i].entry_after = "unprocessed"

\* C13: on every exit path of the per-order processing, every temporary
\* file created during the run has been deleted when the run returns.
C13_TempFilesReleased ==
    \A i \in DOMAIN PolledOrders : PolledOrders[i].temp_left = {}

(***************************************************************************)
(* Properties of the pending-record passes (SpecPending).                  *)
(***************************************************************************)
\* C14: within one pass, a failure while one record is processed does not
\* end the pass: the loop goes through every record the query returned.
C14_PassGoesThroughEveryRecord ==
    last.kind = "pending" => Len(last.handled) = Len(last.returned)

(***************************************************************************)
(* Properties of single function calls (SpecCalls).                        *)
(***************************************************************************)
Returned(fn) == call # <<>> /\ call.fn = fn /\ call.status = "returned"

\* The attempts among the first max_retries whose SMTP session succeeds.
SucceedingAttempts(script) == { k \in 1..max_retries : script[k] = "ok" }

\* C15: send_email makes at most 3 SMTP attempts; it stops at the first
\* attempt that succeeds and returns True; after 3 failed attempts it
\* returns False, and it never raises once an attempt was made.
C15_BoundedRetry ==
    Returned("send_email") =>
        LET r == call.result
            ok == SucceedingAttempts(call.script)
        IN /\ r.attempts <= 3
           /\ r.outcome = "raised" => r.attempts = 0
           /\ r.attempts > 0 =>
                 IF ok # {}
                 THEN /\ r.outcome = "True"
                      /\ r.attempts \in ok
                      /\ \A k \in ok : r.attempts <= k
                 ELSE r.outcome = "False" /\ r.attempts = 3

\* C15 witness: three SMTP attempts fail and a fourth would have succeeded;
\* send_email returned False after the third.
C15_Witness ==
    /\ Returned("send_email")
    /\ SucceedingAttempts(call.script) = {}
    /\ call.script[max_retries + 1] = "ok"
    /\ call.result.outcome = "False"
    /\ call.result.attempts = 3

\* The SMTP attempts of the returned call that failed.
FailedAttempts ==
    IF call.result.outcome = "True" THEN call.result.attempts - 1
    ELSE call.result.attempts

\* C29, as claimed: send_email waits after each of the 3 failed attempts,
\* 2^k seconds after the k-th: 2s, 4s, 8s.
C29_WaitAfterEachFailure ==
    (Returned("send_email") /\ call.result.attempts > 0) =>
        /\ Len(call.result.waits) = FailedAttempts
        /\ \A k \in DOMAIN call.result.waits : call.result.waits[k] = 2^k

\* C29, amended: send_email waits 2^k seconds after the k-th failed attempt
\* for k = 1 and k = 2 only; after the third failed attempt it returns
\* False without waiting, so the waits are 2s, 4s.
C29_BackoffWaits ==
    (Returned("send_email") /\ call.result.attempts > 0) =>
        /\ Len(call.result.waits) =
              (IF FailedAttempts < max_retries THEN FailedAttempts ELSE max_retries - 1)
        /\ \A k \in DOMAIN call.result.waits : call.result.waits[k] = 2^k

\* C29 witness: the three attempts failed and send_email slept 2s and 4s.
C29_Witness ==
    /\ Returned("send_email")
    /\ call.result.outcome = "False"
    /\ call.result.attempts = 3
    /\ call.result.waits = <<2, 4>>

\* C22: the staleness check answers stale exactly when the claimed time is
\* more than max_age_minutes (5) before now, so an event exactly 5 minutes
\* old or timestamped in the future is not stale; a claimed time that is
\* missing or cannot be parsed is not stale.
C22_StaleIffOlder ==
    Returned("is_stale_event") =>
        LET t == call.event_time
        IN IF t.kind \in {"missing", "unparseable"} THEN ~call.result.stale
           ELSE call.result.stale <=> (now - t.at > MAX_AGE_MINUTES * 60)

\* C16: generate_brand_id returns a string of the form BRAND-XXXX-NNNN, XXXX
\* being exactly 4 uppercase letters A-Z and NNNN exactly 4 decimal digits.
C16_BrandIdWellFormed ==
    (Returned("generate_brand_id") /\ call.result.terminates) =>
        LET r == call.result
        IN /\ Len(r.name_part) = 4
           /\ Chars(r.name_part) \subseteq Chars(Uppers)
           /\ Len(r.email_part) = 4
           /\ Chars(r.email_part) \subseteq Chars(Digits)
           /\ r.brand_id = <<"B", "R", "A", "N", "D", "-">> \o r.name_part
                               \o <<"-">> \o r.email_part

\* C17: the 4-letter name segment returned by generate_brand_id contains no
\* letter twice.
C17_NoRepeatedLetter ==
    (Returned("generate_brand_id") /\ call.result.terminates) =>
        \A i, j \in DOMAIN call.result.name_part :
            (i # j /\ isalpha(call.result.name_part[i]))
                => call.result.name_part[i] # call.result.name_part[j]

\* C18: generate_brand_id terminates for every business name and email, the
\* final padding step completing the name code to 4 characters.
C18_BrandIdTerminates ==
    Returned("generate_brand_id") =>
        (call.result.terminates /\ Len(call.result.name_part) = 4)

\* C21: generate_brand_id("Acme Design Studio", e) returns the name segment
\* ACDS for every email e, in each implementation of the repository.
C21_AcmeDesignStudio ==
    (Returned("generate_brand_id") /\ call.business_name = AcmeDesignStudio)
        => (call.result.terminates /\ call.result.name_part = <<"A", "C", "D", "S">>)

\* An argument that is missing (None) or the empty string.
EmptyOrMissing(text) == text = NoString \/ text = <<>>

\* C23: generate_brand_id called with an empty or missing business name and
\* an empty or missing email returns, and returns the well-formed Brand ID
\* of generate_brand_id("Unknown", "example@example.com").
C23_DefaultsForMissingInput ==
    (/\ Returned("generate_brand_id")
     /\ EmptyOrMissing(call.business_name)
     /\ EmptyOrMissing(call.email))
        => LET r == call.result
           IN /\ r.terminates
              /\ r = generate_brand_id(program, DefaultName, DefaultEmail)
              /\ Len(r.name_part) = 4
              /\ Chars(r.name_part) \subseteq Chars(Uppers)
              /\ Len(r.email_part) = 4
              /\ Chars(r.email_part) \subseteq Chars(Digits)

\* C23 witness: the call with the empty business name and the empty email
\* returned BRAND-UNXY-1925.
C23_Witness ==
    /\ Returned("generate_brand_id")
    /\ call.business_name = <<>>
    /\ call.email = <<>>
    /\ call.result.brand_id =
          <<"B", "R", "A", "N", "D", "-", "U", "N", "X", "Y", "-", "1", "9", "2", "5">>

\* The number a string of decimal digits denotes.
RECURSIVE DecimalValue(_)
DecimalValue(text) ==
    IF text = <<>> THEN 0
    ELSE 10 * DecimalValue(SubSeq(text, 1, Len(text) - 1))
         + (IndexIn(Digits, text[Len(text)]) - 1)

\* C30: the email code of a Brand ID is 4 decimal digits that denote the sum
\* of the code points of the characters of the email modulo 10000: the
\* rightmost 4 digits of the sum, left-padded with '0'.
C30_EmailCode ==
    (Returned("generate_brand_id") /\ call.result.terminates) =>
        LET email_part == call.result.email_part
        IN /\ Len(email_part) = 4
           /\ Chars(email_part) \subseteq Chars(Digits)
           /\ DecimalValue(email_part) = SumOrd(EmailOrDefault(call.email)) % 10000

\* C30 witness: the code points of the email sum to less than 1000, and the
\* code returned starts with the padding digit.
C30_Witness ==
    /\ Returned("generate_brand_id")
    /\ call.result.terminates
    /\ call.email = <<"a", "@", "b">>
    /\ SumOrd(call.email) = 259
    /\ call.result.email_part = <<"0", "2", "5", "9">>

\* C31, as claimed: a word of the ignore-list contributes no letter when
\* the name has another word: the name code of 'N Corp' is the name code
\* of 'N'.
C31_SuffixIgnored ==
    \A n \in OneWordNames :
        (Returned("generate_brand_id") /\ call.business_name = WithCorp(n))
            => /\ call.result.terminates = name_part_of(program, n).terminates
               /\ call.result.name_part = name_part_of(program, n).name_part

\* C31, amended: no word is ignored.  For a one-word name N without the
\* letter C, generate_brand_id('N Corp') returns a name code that holds C,
\* the initial of Corp, which the name code of N does not hold; the name
\* 'Corp' alone is processed like any other word.
C31_SuffixContributes ==
    /\ \A n \in OneWordNames :
          (Returned("generate_brand_id") /\ call.business_name = WithCorp(n))
              => /\ call.result.terminates
                 /\ "C" \in Chars(call.result.name_part)
                 /\ "C" \notin Chars(name_part_of(program, n).name_part)
    /\ (Returned("generate_brand_id") /\ call.business_name = Corp)
          => (call.result.terminates /\ call.result.name_part[1] = "C")

\* C31 witness: the call for 'b Corp' returned a name code that starts with
\* B and holds C.
C31_Witness ==
    /\ Returned("generate_brand_id")
    /\ call.business_name = WithCorp(<<"b">>)
    /\ call.result.name_part[1] = "B"
    /\ call.result.name_part[3] = "C"

\* C32: each implementation of generate_brand_id returns, for every example
\* of its own docstring, the name code the docstring states.
C32_DocExamples ==
    \A x \in DocExamples(program) :
        (Returned("generate_brand_id") /\ call.business_name = x.name)
            => (call.result.terminates /\ call.result.name_part = x.code)

\* C33: the implementations of app.py and brand_id_processor.py return the
\* same Brand ID for every business name and email.
C33_ImplementationsAgree ==
    Returned("generate_brand_id")
        => generate_brand_id("app", call.business_name, call.email)
              = generate_brand_id("brand_id_processor", call.business_name, call.email)

\* C38: get_etsy_receipts makes at most 3 attempts, and every attempt that
\* is followed by another one met a network error, an HTTP 429 or an HTTP
\* 5xx reply: any other HTTP error status ends the call at that attempt.
C38_RetriesOnlyTransient ==
    Returned("get_etsy_receipts")
        => /\ call.result.attempts <= 3
           /\ \A k \in 1..(call.result.attempts - 1) :
                 \/ call.script[k].kind = "network"
                 \/ call.script[k].status = 429
                 \/ call.script[k].status \in 500..599

C35_OneOrderRecord == \A o \in OrderIds : orders[o] <= 1

\* C34: the brand database holds at most one record per email, also after
\* deliveries with different event ids that are handled at the same time.
C34_OneRecordPerEmail ==
    \A email \in CustomerEmails : Cardinality(PagesOf(brands, email)) <= 1

\* C36: a brand record receives at most one Brand-ID email, also when the
\* scheduled run of process_pending_records and a run started through
\* /run-processor overlap.
C36_OneEmailPerRecord == resent = {}

(***************************************************************************)
(* Properties of the brand records (SpecStore).                            *)
(***************************************************************************)
\* C19: Brand ID generation is deterministic: a delivery with the business
\* name and the email of the stored brand record generates the Brand ID
\* that was generated for that record.
C19_BrandIdDeterministic ==
    (last.kind = "brand" /\ last.generated /\ last.page_before # <<>>)
        => (last.page_before[1].name = last.business_name
               => last.brand_id = last.page_before[1].brand_id)

\* C20: once a brand record has a Brand ID stored, no later delivery for
\* the same email replaces it with a different Brand ID.
C20_StoredBrandIdKept ==
    (last.kind = "brand" /\ last.stored_before # <<>>)
        => last.stored_after = last.stored_before

====
